---------------------------- MODULE Spec2Model ----------------------------
(***************************************************************************)
(* The streaming chat turn of the EU AI Act agent's Gradio UI              *)
(* (src/apps/eu-ai-act-agent/src/gradio_app.py): the cancellation token,   *)
(* the server-sent-event reducer of chat_with_agent_streaming, its         *)
(* wrapper respond_and_clear and the stop button's handler.                *)
(* The MCP tool functions of chatgpt_app.py in the same directory are      *)
(* modelled too.                                                           *)
(*                                                                         *)
(* Text is a sequence of tokens.  A token is a tuple of strings: one       *)
(* character of streamed text <<"c", x>>, or one fixed piece of markup     *)
(* that the formatting functions emit, with the values it interpolates.    *)
(* Concatenation of Python strings is \o.                                  *)
(***************************************************************************)
EXTENDS Naturals, Sequences, FiniteSets, TLC

VARIABLES
    cancel_token,            \* the module-level CancellationToken (line 115)
    current_model_settings,  \* the module-level settings dictionary (line 73)
    pc,                      \* per session: where its chat turn stands
    loc,                     \* per session: locals of chat_with_agent_streaming
    new_history,             \* per session: new_history of chat_with_agent_streaming
    response,                \* per session: the HTTP response of the turn
    ret,                     \* per session: where the generator resumes after a yield
    chatbot,                 \* per session: the history the UI shows
    stop_visible,            \* per session: the stop button is shown
    received,                \* per session: the lines read from the stream so far
    obs,                     \* per session: what happened in the turn (history)
    request,                 \* per session: the headers of the request to /api/chat
    lock,                    \* the holder of the token's _lock (line 88)
    thread,                  \* per thread: where its call of a token method stands
    call                     \* per MCP tool function of chatgpt_app.py: its call

vars == <<cancel_token, current_model_settings, pc, loc, new_history, response,
          ret, chatbot, stop_visible, received, obs, request, lock, thread, call>>

-----------------------------------------------------------------------------
(* Bounds *)

\* lines one turn reads from its stream when one session is modelled
MaxLines == 3
\* lines one turn reads from its stream when two sessions run at once
MaxLinesShared == 2
\* lines the stream of the one-tool-call scenario carries
MaxScenarioLines == 4
\* lines one turn reads from its stream when the settings change
MaxSettingsLines == 1
\* lines one turn reads from its stream when a session has several turns
MaxSessionLines == 1
\* chat turns of one session
MaxTurns == 2

-----------------------------------------------------------------------------
(* Program constants *)

\* format_tool_result: the JSON dump of a result is cut above this length
ResultTruncate == 1500
\* format_tool_result: the raw JSON of an assess_compliance result is cut above this
AssessTruncate == 5000
\* save_api_keys: a key is stored when it is longer than this
MinKeyLength == 10

Sessions == {"A", "B"}

None == "None"
\* a key that the JSON object of an event does not carry
Absent == "<absent>"

Tools == {"assess_compliance", "discover_organization"}

-----------------------------------------------------------------------------
(* Text *)

Ch(x) == <<"c", x>>
Space == Ch(" ")

\* position n of a stream carries the letter Idx[n], so that the arrival order
\* of streamed text can be read off a transcript
Idx == <<"1", "2", "3", "4", "5", "6">>

RECURSIVE LStrip(_)
LStrip(t) ==
    IF t = <<>> THEN <<>>
    ELSE IF Head(t) = Space THEN LStrip(Tail(t)) ELSE t

RECURSIVE RStrip(_)
RStrip(t) ==
    IF t = <<>> THEN <<>>
    ELSE IF t[Len(t)] = Space THEN RStrip(SubSeq(t, 1, Len(t) - 1)) ELSE t

\* str.strip()
Strip(t) == RStrip(LStrip(t))

\* tool_name.replace('_', ' ').title()
Title(tool_name) ==
    CASE tool_name = "assess_compliance" -> "Assess Compliance"
      [] tool_name = "discover_organization" -> "Discover Organization"
      [] tool_name = "unknown" -> "Unknown"
      [] OTHER -> tool_name

\* tool_name.replace('_', ' ')
Spaced(tool_name) ==
    CASE tool_name = "assess_compliance" -> "assess compliance"
      [] tool_name = "discover_organization" -> "discover organization"
      [] OTHER -> tool_name

\* JSON values (arguments, results): shape, identity and length of the dump.
\* "null" and "empty" ({}) are falsy in Python, the others truthy.
Truthy(v) == v.shape \notin {"null", "empty"}

NL2 == <<"NL NL">>
StopMarker == <<"- Execution stopped by user">>
NoResponse == <<"No response generated.">>

\* format_tool_call
format_tool_call(tool_name, args) ==
    << IF Truthy(args) THEN <<"tool_call", tool_name, "json", args.id>>
                       ELSE <<"tool_call", tool_name, "{}", "">> >>

\* format_thinking_section
format_thinking_section(thinking_text, tool_name) ==
    IF Strip(thinking_text) = <<>> THEN <<>>
    ELSE << IF tool_name # None
            THEN <<"details", "AI Reasoning (before", Title(tool_name)>>
            ELSE <<"details", "AI Reasoning">> >>
         \o Strip(thinking_text) \o << <<"/details">> >>

\* format_tool_result raises AttributeError: the assess_compliance branch calls
\* result.get on a truthy result that is no JSON object
format_tool_result_raises(tool_name, result) ==
    tool_name = "assess_compliance" /\ Truthy(result) /\ result.shape # "object"

\* format_tool_result, where it returns
format_tool_result(tool_name, result) ==
    IF tool_name = "assess_compliance" /\ Truthy(result)
    THEN << <<"assessment_result", tool_name, result.id,
              IF result.len > AssessTruncate THEN "truncated" ELSE "full">> >>
    ELSE << IF Truthy(result)
            THEN <<"tool_result", tool_name, result.id,
                   IF result.len > ResultTruncate THEN "truncated" ELSE "full">>
            ELSE <<"tool_result", tool_name, "null", "full">> >>

\* format_thinking_indicator: the display name of the tool
tool_display_name(tool_name) ==
    CASE tool_name = "assess_compliance" -> "EU AI Act Compliance Assessment"
      [] tool_name = "discover_ai_services" -> "AI Systems Discovery"
      [] tool_name = "discover_organization" -> "Organization Discovery"
      [] OTHER -> Title(tool_name)

\* format_thinking_indicator
format_thinking_indicator(tool_name) ==
    << IF tool_name # None
       THEN <<"hourglass Processing:", tool_display_name(tool_name)>>
       ELSE <<"hourglass Processing with MCP tools">> >>

-----------------------------------------------------------------------------
(* The reducer: one operator per event type of chat_with_agent_streaming.   *)
(* l holds the locals tool_calls_content, current_thinking, bot_response    *)
(* and current_tool_call.  The result is the locals after the event, the    *)
(* content the event yields as the last assistant message (show, empty      *)
(* when it yields nothing) and how the loop goes on (ctl).                  *)

InitLocals ==
    [tool_calls_content |-> <<>>, current_thinking |-> <<>>,
     bot_response |-> <<>>, current_tool_call |-> None]

Step(l, show, ctl) == [l |-> l, show |-> show, ctl |-> ctl]

LiveThinking(text) ==
    << <<"NL NL brain Model Thinking (live):", "~~~">> >> \o text \o << <<"~~~">> >>

\* event_type == "thinking" (lines 555-568)
OnThinking(l, ev) ==
    IF ev.content # <<>>
    THEN LET l2 == [l EXCEPT !.current_thinking = @ \o ev.content]
         IN  Step(l2, << l2.tool_calls_content \o LiveThinking(l2.current_thinking) >>,
                  "next")
    ELSE Step(l, <<>>, "next")

\* a faulty text branch, which C27 must reject: text that the server marks as
\* potential response goes to the response text instead of the buffer
OnTextByPhase(l, ev) ==
    IF ev.phase = "thinking" \/ (~ev.hasHadToolCalls /\ l.tool_calls_content = <<>>)
    THEN LET l2 == [l EXCEPT !.current_thinking = @ \o ev.content]
         IN  Step(l2, << IF l.tool_calls_content = <<>>
                         THEN << <<"brain AI is reasoning...">> >> \o l2.current_thinking
                         ELSE l.tool_calls_content \o << <<"NL NL brain Reasoning:">> >>
                                \o l2.current_thinking >>, "next")
    ELSE LET l2 == [l EXCEPT !.bot_response = @ \o ev.content]
         IN  Step(l2, << l.tool_calls_content \o <<NL2>> \o l2.bot_response >>, "next")

\* event_type == "text" (lines 570-600)
OnText(l, ev) ==
    LET l2 == [l EXCEPT !.current_thinking = @ \o ev.content]
        display ==
            IF ev.phase = "thinking"
               \/ (~ev.hasHadToolCalls /\ l.tool_calls_content = <<>>)
            THEN IF l.tool_calls_content = <<>>
                 THEN << <<"brain AI is reasoning...">> >> \o l2.current_thinking
                 ELSE l.tool_calls_content \o << <<"NL NL brain Reasoning:">> >>
                        \o l2.current_thinking
            ELSE l.tool_calls_content \o <<NL2>> \o l2.current_thinking
    IN  Step(l2, <<display>>, "next")

\* the synthetic note of a tool call that no text preceded (lines 613-614)
synthetic_thinking(tool_name) == << <<"I'll use the tool", Title(tool_name)>> >>

\* event_type == "tool_call" (lines 602-624)
OnToolCall(l, ev) ==
    LET tool_name == IF ev.toolName = Absent THEN "unknown" ELSE ev.toolName
        l2 == IF Strip(l.current_thinking) # <<>>
              THEN [l EXCEPT
                      !.tool_calls_content =
                          @ \o format_thinking_section(l.current_thinking, tool_name),
                      !.current_thinking = <<>>]
              ELSE [l EXCEPT
                      !.tool_calls_content =
                          @ \o format_thinking_section(synthetic_thinking(tool_name),
                                                       tool_name)]
        l3 == [l2 EXCEPT !.tool_calls_content = @ \o format_tool_call(tool_name, ev.args)]
        full_content == l3.tool_calls_content \o l3.bot_response
                          \o format_thinking_indicator(tool_name)
    IN  Step([l3 EXCEPT !.current_tool_call = tool_name], <<full_content>>, "next")

\* a faulty tool_result branch, which C5 must reject: the result record is put
\* in front of the finalized blocks instead of after them
OnToolResultPrepends(l, ev) ==
    LET tool_name == IF ev.toolName # Absent THEN ev.toolName
                     ELSE IF l.current_tool_call # None THEN l.current_tool_call
                     ELSE "unknown"
    IN  IF format_tool_result_raises(tool_name, ev.result)
        THEN Step(l, <<>>, "raise")
        ELSE LET l2 == [l EXCEPT !.tool_calls_content =
                                     format_tool_result(tool_name, ev.result) \o @]
                 full_content == l2.tool_calls_content
                                   \o << <<"NL NL brain Analyzing", Spaced(tool_name)>> >>
             IN  Step([l2 EXCEPT !.current_tool_call = None], <<full_content>>, "next")

\* event_type == "tool_result" (lines 626-637)
OnToolResult(l, ev) ==
    LET tool_name == IF ev.toolName # Absent THEN ev.toolName
                     ELSE IF l.current_tool_call # None THEN l.current_tool_call
                     ELSE "unknown"
    IN  IF format_tool_result_raises(tool_name, ev.result)
        THEN Step(l, <<>>, "raise")
        ELSE LET l2 == [l EXCEPT !.tool_calls_content =
                                     @ \o format_tool_result(tool_name, ev.result)]
                 full_content == l2.tool_calls_content
                                   \o << <<"NL NL brain Analyzing", Spaced(tool_name)>> >>
             IN  Step([l2 EXCEPT !.current_tool_call = None], <<full_content>>, "next")

\* a faulty step_finish branch, which C19 must reject: the reasoning block
\* replaces the accumulated content
OnStepFinishReplaces(l, ev) ==
    LET l2 == IF Strip(l.current_thinking) # <<>>
              THEN [l EXCEPT
                      !.tool_calls_content =
                          format_thinking_section(l.current_thinking, None),
                      !.current_thinking = <<>>]
              ELSE l
    IN  Step(l2, << l2.tool_calls_content \o l2.bot_response >>, "next")

\* event_type == "step_finish" (lines 639-655)
OnStepFinish(l, ev) ==
    LET l2 == IF Strip(l.current_thinking) # <<>>
              THEN [l EXCEPT
                      !.tool_calls_content =
                          @ \o format_thinking_section(l.current_thinking, None),
                      !.current_thinking = <<>>]
              ELSE l
        full_content ==
            IF ev.hasHadToolCalls /\ l2.tool_calls_content # <<>>
            THEN l2.tool_calls_content \o << <<"NL NL sparkles Preparing comprehensive response">> >>
            ELSE l2.tool_calls_content \o l2.bot_response
    IN  Step(l2, <<full_content>>, "next")

ErrorEventText(error) ==
    << <<"NL NL warning Error:", IF error = Absent THEN "Unknown error" ELSE error>> >>

\* event_type == "error" (lines 657-662)
OnError(l, ev) ==
    LET l2 == [l EXCEPT !.bot_response = @ \o ErrorEventText(ev.error)]
    IN  Step(l2, << l2.tool_calls_content \o l2.bot_response >>, "next")

\* a faulty done branch, which C15 must reject: the loop is not left
OnDoneContinues(l, ev) ==
    LET l2 == [l EXCEPT !.bot_response = l.current_thinking, !.current_thinking = <<>>]
    IN  Step(l2, << l2.tool_calls_content \o l2.bot_response >>, "next")

\* event_type == "done" (lines 664-681)
OnDone(l, ev) ==
    LET l2 == [l EXCEPT !.bot_response = l.current_thinking, !.current_thinking = <<>>]
    IN  Step(l2, << l2.tool_calls_content \o l2.bot_response >>, "break")

\* the dispatch on event_type (lines 552-681); an unknown type matches no branch
ApplyEvent(l, ev) ==
    CASE ev.type = "thinking"    -> OnThinking(l, ev)
      [] ev.type = "text"        -> OnText(l, ev)
      [] ev.type = "tool_call"   -> OnToolCall(l, ev)
      [] ev.type = "tool_result" -> OnToolResult(l, ev)
      [] ev.type = "step_finish" -> OnStepFinish(l, ev)
      [] ev.type = "error"       -> OnError(l, ev)
      [] ev.type = "done"        -> OnDone(l, ev)
      [] OTHER                   -> Step(l, <<>>, "next")

\* the cancellation branch of the loop (lines 532-544)
OnCancelled(l) ==
    LET l2 == IF Strip(l.current_thinking) # <<>>
              THEN [l EXCEPT !.tool_calls_content =
                                 @ \o format_thinking_section(l.current_thinking, None)]
              ELSE l
        final_content == l2.tool_calls_content \o l2.bot_response
    IN  Step(l2,
             << IF final_content # <<>> THEN final_content \o <<NL2, StopMarker>>
                                        ELSE <<StopMarker>> >>,
             "return")

\* one line of response.iter_lines() whose poll of is_cancelled() was false
\* (lines 546-684): an empty line and a line without the 'data: ' marker are
\* passed over, json.loads raises JSONDecodeError on a payload that is no JSON
\* (caught: continue), and data.get raises AttributeError on a JSON value that
\* is no object (not caught in the loop)
ParseLine(l, line) ==
    CASE line.kind = "empty" -> Step(l, <<>>, "next")
      [] line.kind = "other" -> Step(l, <<>>, "next")
      [] line.kind = "data" /\ line.json = "invalid" -> Step(l, <<>>, "next")
      [] line.kind = "data" /\ line.json = "scalar"  -> Step(l, <<>>, "raise")
      [] OTHER -> ApplyEvent(l, line.ev)

\* the body of the loop over response.iter_lines() for one line (lines 530-684)
ProcessLine(l, line, cancelled) ==
    IF cancelled THEN OnCancelled(l) ELSE ParseLine(l, line)

\* "Ensure final state" after the loop (lines 686-695), token not cancelled
EnsureFinal(l) ==
    LET l2 == IF Strip(l.current_thinking) # <<>> /\ l.bot_response = <<>>
              THEN [l EXCEPT !.bot_response = l.current_thinking]
              ELSE l
    IN  Step(l2,
             << l2.tool_calls_content
                  \o (IF l2.bot_response # <<>> THEN l2.bot_response ELSE <<NoResponse>>) >>,
             "return")

ExcKinds == {"RequestsConnectionError", "Timeout", "ChunkedEncodingError", "Exception"}

ErrCannotConnect == <<"warning Cannot connect to API server.">>
ErrTimedOut == <<"warning Request timed out.">>
ErrInterrupted == <<"warning Connection was interrupted.">>
ErrException == <<"warning Error:", "str(e)">>
ErrStatus == <<"warning Error: API returned status">>

\* the except clauses (lines 697-720), token not cancelled: the content of the
\* last assistant message.  An AttributeError raised in the loop body and any
\* other exception reach the last clause, except Exception.
HandleException(l, kind) ==
    CASE kind = "RequestsConnectionError" -> <<ErrCannotConnect>>
      [] kind = "Timeout" ->
            l.tool_calls_content \o l.bot_response \o <<NL2, ErrTimedOut>>
      [] kind = "ChunkedEncodingError" ->
            l.tool_calls_content \o l.bot_response \o <<NL2, ErrInterrupted>>
      [] OTHER ->
            IF l.tool_calls_content # <<>> \/ l.bot_response # <<>>
            THEN l.tool_calls_content \o l.bot_response \o <<NL2, ErrException>>
            ELSE <<ErrException>>

-----------------------------------------------------------------------------
(* The cancellation token (class CancellationToken, lines 85-112).  Each     *)
(* method runs with the token's lock held, so each is one atomic step.       *)

\* CancellationToken.__init__
NewToken == [cancelled |-> FALSE, response |-> None]

\* CancellationToken.cancel: the flag
cancel(tok) == [tok EXCEPT !.cancelled = TRUE]

\* CancellationToken.is_cancelled
is_cancelled(tok) == tok.cancelled

\* CancellationToken.set_response
set_response(tok, r) == [tok EXCEPT !.response = r]

\* CancellationToken.reset
reset(tok) == [tok EXCEPT !.cancelled = FALSE, !.response = None]

-----------------------------------------------------------------------------
(* Settings and chat messages *)

DefaultSettings ==
    [model |-> "gpt-oss", openai_api_key |-> "", xai_api_key |-> "",
     anthropic_api_key |-> "", google_api_key |-> "", tavily_api_key |-> "",
     modal_endpoint_url |-> "https://modal.run"]

\* a faulty check_required_keys, which C18 must reject: no key is ever missing
check_required_keys_none(settings) == <<>>

\* check_required_keys: the missing keys (is_valid is that there are none)
check_required_keys(settings) ==
    LET model == settings.model
    IN  CASE model = "gpt-oss" -> <<>>
          [] model \in {"claude-4.5", "claude-opus"} /\ settings.anthropic_api_key = ""
                -> << <<"Anthropic API Key", model>> >>
          [] model = "gemini-3" /\ settings.google_api_key = ""
                -> << <<"Google API Key">> >>
          [] model = "gpt-5" /\ settings.openai_api_key = ""
                -> << <<"OpenAI API Key">> >>
          [] model = "grok-4-1" /\ settings.xai_api_key = ""
                -> << <<"xAI API Key">> >>
          [] OTHER -> <<>>

\* AVAILABLE_MODELS.get(selected_model, {}).get("name", selected_model)
model_name(model) ==
    CASE model = "gpt-oss" -> "GPT-OSS 20B (Modal - FREE)"
      [] model = "claude-4.5" -> "Claude 4.5 Sonnet (Anthropic)"
      [] model = "claude-opus" -> "Claude Opus 4 (Anthropic)"
      [] model = "gemini-3" -> "Gemini 3 Pro (Google)"
      [] model = "gpt-5" -> "GPT-5 (OpenAI)"
      [] model = "grok-4-1" -> "Grok 4.1 (xAI)"
      [] OTHER -> model

\* the models of the dropdown (AVAILABLE_MODELS, lines 34-65)
AVAILABLE_MODELS == {"gpt-oss", "claude-4.5", "claude-opus", "gemini-3", "gpt-5", "grok-4-1"}

\* a faulty get_api_headers, which C17 must reject: every stored key is sent
get_api_headers_all_keys(settings) ==
    { <<"Content-Type", "application/json">>, <<"X-AI-Model", settings.model>>,
      <<"X-Modal-Endpoint-URL", settings.modal_endpoint_url>> }
    \cup (IF settings.openai_api_key # ""
          THEN { <<"X-OpenAI-API-Key", settings.openai_api_key>> } ELSE {})
    \cup (IF settings.xai_api_key # ""
          THEN { <<"X-XAI-API-Key", settings.xai_api_key>> } ELSE {})
    \cup (IF settings.anthropic_api_key # ""
          THEN { <<"X-Anthropic-API-Key", settings.anthropic_api_key>> } ELSE {})
    \cup (IF settings.google_api_key # ""
          THEN { <<"X-Google-API-Key", settings.google_api_key>> } ELSE {})
    \cup (IF settings.tavily_api_key # ""
          THEN { <<"X-Tavily-API-Key", settings.tavily_api_key>> } ELSE {})

\* get_api_headers: the dictionary of headers, as the set of its items
get_api_headers(settings) ==
    LET model == settings.model
    IN  { <<"Content-Type", "application/json">>, <<"X-AI-Model", model>> }
        \cup (CASE model = "gpt-oss"
                     -> { <<"X-Modal-Endpoint-URL", settings.modal_endpoint_url>> }
                [] model = "gpt-5" /\ settings.openai_api_key # ""
                     -> { <<"X-OpenAI-API-Key", settings.openai_api_key>> }
                [] model = "grok-4-1" /\ settings.xai_api_key # ""
                     -> { <<"X-XAI-API-Key", settings.xai_api_key>> }
                [] model \in {"claude-4.5", "claude-opus"} /\ settings.anthropic_api_key # ""
                     -> { <<"X-Anthropic-API-Key", settings.anthropic_api_key>> }
                [] model = "gemini-3" /\ settings.google_api_key # ""
                     -> { <<"X-Google-API-Key", settings.google_api_key>> }
                [] OTHER -> {})
        \cup (IF settings.tavily_api_key # ""
              THEN { <<"X-Tavily-API-Key", settings.tavily_api_key>> } ELSE {})

\* update_model
update_model(settings, model_value) == [settings EXCEPT !.model = model_value]

\* what a user may type into a key field: nothing, too short a text, a key
UserKeys ==
    [tavily |-> "tvly-0123456789", anthropic |-> "sk-ant-0123456789",
     google |-> "AIza-0123456789", openai |-> "sk-0123456789", xai |-> "xai-0123456789"]

KeyInputs(provider) == {"", "short", UserKeys[provider]}

\* len() of such an input
KeyLen(val) == IF val = "" THEN 0 ELSE IF val = "short" THEN 5 ELSE MinKeyLength + 6

\* save_api_keys: a field is stored when it holds more than 10 characters
save_api_keys(settings, tavily_val, anthropic_val, google_val, openai_val, xai_val) ==
    LET kept(old, val) == IF val # "" /\ KeyLen(val) > MinKeyLength THEN val ELSE old
    IN  [settings EXCEPT !.tavily_api_key = kept(@, tavily_val),
                         !.anthropic_api_key = kept(@, anthropic_val),
                         !.google_api_key = kept(@, google_val),
                         !.openai_api_key = kept(@, openai_val),
                         !.xai_api_key = kept(@, xai_val)]

\* clear_api_keys
clear_api_keys(settings) ==
    [settings EXCEPT !.tavily_api_key = "", !.anthropic_api_key = "",
                     !.google_api_key = "", !.openai_api_key = "", !.xai_api_key = ""]

ChatMessage(role, content) == [role |-> role, content |-> content]

\* a faulty update of the transcript, which C16 must reject: the content is
\* appended as a further assistant message
SetLastAppends(history, content) ==
    Append(history, ChatMessage("assistant", content))

\* new_history[-1] = ChatMessage(role="assistant", content=content)
SetLast(history, content) ==
    [history EXCEPT ![Len(history)] = ChatMessage("assistant", content)]

\* the content of the last message of a history
LastContent(history) == history[Len(history)].content

Contains(text, tok) == \E i \in 1..Len(text) : text[i] = tok

\* the messages a user may submit: a blank one and a question
Messages == { <<Space>>, <<Ch("q")>> }

-----------------------------------------------------------------------------
(* The lines a stream may carry at position n *)

Obj(n) == [shape |-> "object", id |-> Idx[n], len |-> 10]
LongObj(n) == [shape |-> "object", id |-> Idx[n], len |-> ResultTruncate + 1]
Str(n) == [shape |-> "string", id |-> Idx[n], len |-> 10]
Null == [shape |-> "null", id |-> "", len |-> 4]
EmptyObj == [shape |-> "empty", id |-> "", len |-> 2]

Data(ev) == [kind |-> "data", json |-> "object", ev |-> ev]

TextEvents(n) ==
    { [type |-> "text", content |-> <<Ch(Idx[n])>>, phase |-> f[1],
       hasHadToolCalls |-> f[2]] :
        f \in { <<"thinking", FALSE>>, <<"potential_response", FALSE>>,
                <<"potential_response", TRUE>> } }
    \cup { [type |-> "text", content |-> <<Space>>, phase |-> "thinking",
            hasHadToolCalls |-> FALSE] }

ThinkingEvents(n) ==
    { [type |-> "thinking", content |-> c] : c \in { <<>>, <<Ch(Idx[n])>> } }

ToolCallEvents(n) ==
    { [type |-> "tool_call", toolName |-> "assess_compliance", args |-> EmptyObj],
      [type |-> "tool_call", toolName |-> "discover_organization", args |-> Obj(n)],
      [type |-> "tool_call", toolName |-> Absent, args |-> Obj(n)] }

ToolResultEvents(n) ==
    { [type |-> "tool_result", toolName |-> "assess_compliance", result |-> r] :
        r \in { Null, Obj(n), Str(n) } }
    \cup { [type |-> "tool_result", toolName |-> "discover_organization",
            result |-> LongObj(n)],
           [type |-> "tool_result", toolName |-> Absent, result |-> Obj(n)] }

OtherEvents(n) ==
    { [type |-> "step_finish", hasHadToolCalls |-> b] : b \in BOOLEAN }
    \cup { [type |-> "error", error |-> Idx[n]] }
    \cup { [type |-> "done"], [type |-> "ping"] }

Events(n) ==
    TextEvents(n) \cup ThinkingEvents(n) \cup ToolCallEvents(n)
        \cup ToolResultEvents(n) \cup OtherEvents(n)

Lines(n) ==
    { Data(ev) : ev \in Events(n) }
    \cup { [kind |-> "empty"], [kind |-> "other"],
           [kind |-> "data", json |-> "invalid"],
           [kind |-> "data", json |-> "scalar"] }

\* the lines of a stream when two sessions run at once
SharedLines(n) ==
    { Data([type |-> "text", content |-> <<Ch(Idx[n])>>, phase |-> "thinking",
            hasHadToolCalls |-> FALSE]),
      Data([type |-> "done"]) }

-----------------------------------------------------------------------------
(* The MCP tool functions of chatgpt_app.py (lines 44-231): each posts its   *)
(* arguments to /api/tools/<name> of the API server and returns a dict       *)

McpTools == {"discover_organization", "discover_ai_services", "assess_compliance"}

\* the status codes the API server may answer with
Statuses == {200, 404, 500}

\* what the body of an answer may be: a JSON object, another JSON value, no JSON
Bodies == {"object", "array", "not_json"}

\* what requests.post may raise
PostExceptions == {"RequestsConnectionError", "Timeout", "InvalidJSONError"}

\* no answer yet
NoReply == [status |-> 0, body |-> "none"]

\* no dict returned yet
NoResult == [returns |-> "nothing", error |-> FALSE, message |-> "", details |-> ""]

\* a tool function that is not being called
IdleCall == [pc |-> "idle", reply |-> NoReply, exc |-> None, result |-> NoResult]

\* response.json() raises on a body that is no JSON
json_raises(reply) == reply.body = "not_json"

\* return response.json(): what the API sent, whatever it holds
ReturnBody(reply) ==
    [returns |-> "body", error |-> FALSE, message |-> "", details |-> reply.body]

\* the dict of the else branch of the status check
StatusError(reply) ==
    [returns |-> "error_dict", error |-> TRUE, message |-> "API returned status",
     details |-> "response.text"]

\* the dicts of the except clauses
ExceptError(kind) ==
    [returns |-> "error_dict", error |-> TRUE,
     message |-> IF kind = "RequestsConnectionError"
                 THEN "Cannot connect to API server." ELSE "str(e)",
     details |-> ""]

-----------------------------------------------------------------------------
(* State *)

\* the local variable response: None, or the response requests.post returned
NoResponseYet == [obtained |-> FALSE, status |-> 0, closed |-> FALSE]
Obtained(status) == [obtained |-> TRUE, status |-> status, closed |-> FALSE]

\* no request was built yet
NoRequest == {}

\* the threads that call the token's methods: the stop button's handler and
\* the reducer's loop
Threads == {"ui", "reducer"}

\* a thread that is in no method of the token
IdleThread ==
    [pc |-> "idle", method |-> None, arg |-> None, result |-> None, exc |-> None]

InitObs ==
    [outcome |-> "none",      \* how the generator ended
     exc |-> None,            \* the exception it handled, if any
     last |-> "none",         \* what wrote the latest content of new_history
     cancel_mid |-> FALSE,    \* cancel() was called while the turn consumed its stream
     own_stop |-> FALSE,      \* the session's own stop button was clicked in the turn
     stops |-> 0,             \* cancel() calls since the turn began (at most 2 counted)
     poll_true |-> FALSE,     \* a poll of is_cancelled() in the loop returned true
     poll_false |-> FALSE]    \* a poll after cancel_mid returned false

Init ==
    /\ cancel_token = NewToken
    /\ current_model_settings = DefaultSettings
    /\ pc = [s \in Sessions |-> "idle"]
    /\ loc = [s \in Sessions |-> InitLocals]
    /\ new_history = [s \in Sessions |-> <<>>]
    /\ response = [s \in Sessions |-> NoResponseYet]
    /\ ret = [s \in Sessions |-> "iter"]
    /\ chatbot = [s \in Sessions |-> <<>>]
    /\ stop_visible = [s \in Sessions |-> FALSE]
    /\ received = [s \in Sessions |-> <<>>]
    /\ obs = [s \in Sessions |-> InitObs]
    /\ request = [s \in Sessions |-> NoRequest]
    /\ lock = None
    /\ thread = [t \in Threads |-> IdleThread]
    /\ call = [f \in McpTools |-> IdleCall]

\* the turn of s is reading its stream
Consuming(s) == pc[s] = "iter" \/ (pc[s] = "yielded" /\ ret[s] = "iter")

\* the turn of s is between its first reset() and its end
InFlight(s) == pc[s] \notin {"idle", "end"}

\* response.close(), when response is not None
Closed(resp) == IF resp.obtained THEN [resp EXCEPT !.closed = TRUE] ELSE resp

-----------------------------------------------------------------------------
(* respond_and_clear up to its first yield (lines 1694-1726) *)

ThinkingWith(settings) == <<"hourglass Thinking with", model_name(settings.model)>>

KeysRequired(missing) == << <<"API Keys Required">> >> \o missing

Submit(s, message) ==
    /\ pc[s] = "idle"
    /\ LET history == chatbot[s]
           missing == check_required_keys(current_model_settings)
       IN  IF Strip(message) = <<>>
           THEN /\ pc' = [pc EXCEPT ![s] = "end"]
                /\ obs' = [obs EXCEPT ![s].outcome = "blank"]
                /\ stop_visible' = [stop_visible EXCEPT ![s] = FALSE]
                /\ UNCHANGED <<cancel_token, chatbot, new_history>>
           ELSE IF missing # <<>>
           THEN /\ pc' = [pc EXCEPT ![s] = "end"]
                /\ obs' = [obs EXCEPT ![s].outcome = "keys"]
                /\ chatbot' = [chatbot EXCEPT ![s] =
                                  history \o <<ChatMessage("user", message),
                                               ChatMessage("assistant", KeysRequired(missing))>>]
                /\ stop_visible' = [stop_visible EXCEPT ![s] = FALSE]
                /\ UNCHANGED <<cancel_token, new_history>>
           ELSE LET initial_history ==
                        history \o <<ChatMessage("user", message),
                                     ChatMessage("assistant",
                                                 <<ThinkingWith(current_model_settings)>>)>>
                IN  /\ cancel_token' = reset(cancel_token)
                    /\ chatbot' = [chatbot EXCEPT ![s] = initial_history]
                    /\ new_history' = [new_history EXCEPT ![s] = initial_history]
                    /\ stop_visible' = [stop_visible EXCEPT ![s] = TRUE]
                    /\ pc' = [pc EXCEPT ![s] = "started"]
                    /\ obs' = obs
    /\ UNCHANGED <<call, request, lock, thread, current_model_settings, loc, response, ret, received>>

(* chat_with_agent_streaming up to the call of requests.post, whose arguments
   are built (lines 479-514); the message is not blank here and
   initialized_history is given *)
Begin(s) ==
    /\ pc[s] = "started"
    /\ cancel_token' = reset(cancel_token)
    /\ loc' = [loc EXCEPT ![s] = InitLocals]
    /\ response' = [response EXCEPT ![s] = NoResponseYet]
    /\ request' = [request EXCEPT ![s] = get_api_headers(current_model_settings)]
    /\ pc' = [pc EXCEPT ![s] = "post"]
    /\ UNCHANGED <<call, lock, thread, current_model_settings, new_history, ret, chatbot,
                   stop_visible, received, obs>>

\* requests.post returns a response (lines 510-516)
Post(s, status) ==
    /\ pc[s] = "post"
    /\ response' = [response EXCEPT ![s] = Obtained(status)]
    /\ pc' = [pc EXCEPT ![s] = "register"]
    /\ UNCHANGED <<call, request, lock, thread, cancel_token, current_model_settings, loc, new_history, ret, chatbot,
                   stop_visible, received, obs>>

\* cancel_token.set_response(response) and the status check (lines 519-525)
Register(s) ==
    /\ pc[s] = "register"
    /\ cancel_token' = set_response(cancel_token, s)
    /\ IF response[s].status # 200
       THEN /\ new_history' = [new_history EXCEPT ![s] = SetLast(@, <<ErrStatus>>)]
            /\ pc' = [pc EXCEPT ![s] = "yielded"]
            /\ ret' = [ret EXCEPT ![s] = "finally"]
            /\ obs' = [obs EXCEPT ![s].outcome = "status", ![s].last = "status"]
       ELSE /\ pc' = [pc EXCEPT ![s] = "iter"]
            /\ UNCHANGED <<new_history, ret, obs>>
    /\ UNCHANGED <<call, request, lock, thread, current_model_settings, loc, response, chatbot, stop_visible, received>>

\* a faulty except clause, which C9 must reject: the error message is added
\* to the content of the last assistant message instead of replacing it
HandleAppends(s, l, kind) ==
    IF is_cancelled(cancel_token)
    THEN /\ pc' = [pc EXCEPT ![s] = "finally"]
         /\ UNCHANGED <<new_history, ret>>
    ELSE /\ new_history' = [new_history EXCEPT ![s] =
                               SetLast(@, LastContent(@) \o HandleException(l, kind))]
         /\ pc' = [pc EXCEPT ![s] = "yielded"]
         /\ ret' = [ret EXCEPT ![s] = "finally"]

\* an except clause runs (lines 697-720): nothing is written when cancelled
Handle(s, l, kind) ==
    IF is_cancelled(cancel_token)
    THEN /\ pc' = [pc EXCEPT ![s] = "finally"]
         /\ UNCHANGED <<new_history, ret>>
    ELSE /\ new_history' = [new_history EXCEPT ![s] = SetLast(@, HandleException(l, kind))]
         /\ pc' = [pc EXCEPT ![s] = "yielded"]
         /\ ret' = [ret EXCEPT ![s] = "finally"]

\* one line arrives from response.iter_lines() and the loop body runs (lines 530-684)
ReadLine(s, line) ==
    /\ pc[s] = "iter"
    /\ LET cancelled == is_cancelled(cancel_token)
           r == ProcessLine(loc[s], line, cancelled)
           o == [obs[s] EXCEPT !.poll_true = @ \/ cancelled,
                               !.poll_false = @ \/ (obs[s].cancel_mid /\ ~cancelled)]
       IN  /\ received' = [received EXCEPT ![s] = Append(@, line)]
           /\ loc' = [loc EXCEPT ![s] = r.l]
           /\ IF r.ctl = "raise"
              THEN /\ Handle(s, r.l, "AttributeError")
                   /\ obs' = [obs EXCEPT ![s] = [o EXCEPT !.outcome = "raised",
                                                          !.exc = "AttributeError",
                                                          !.last = IF cancelled THEN @
                                                                   ELSE "error"]]
              ELSE IF r.show # <<>>
              THEN /\ new_history' = [new_history EXCEPT ![s] = SetLast(@, r.show[1])]
                   /\ pc' = [pc EXCEPT ![s] = "yielded"]
                   /\ ret' = [ret EXCEPT ![s] =
                                 CASE r.ctl = "break" -> "after_loop"
                                   [] r.ctl = "return" -> "finally"
                                   [] OTHER -> "iter"]
                   /\ obs' = [obs EXCEPT ![s] =
                                 [o EXCEPT !.last = IF cancelled THEN "cancel" ELSE "event",
                                           !.outcome = IF cancelled THEN "stopped"
                                                       ELSE IF r.ctl = "break" THEN "done"
                                                       ELSE @]]
              ELSE /\ obs' = [obs EXCEPT ![s] = o]
                   /\ UNCHANGED <<pc, new_history, ret>>
    /\ UNCHANGED <<call, request, lock, thread, cancel_token, current_model_settings, response, chatbot, stop_visible>>

\* the code after the loop (lines 686-695)
Finalize(s) ==
    IF is_cancelled(cancel_token)
    THEN /\ pc' = [pc EXCEPT ![s] = "finally"]
         /\ UNCHANGED <<loc, new_history, ret>>
         /\ obs' = obs
    ELSE LET r == EnsureFinal(loc[s])
         IN  /\ loc' = [loc EXCEPT ![s] = r.l]
             /\ new_history' = [new_history EXCEPT ![s] = SetLast(@, r.show[1])]
             /\ pc' = [pc EXCEPT ![s] = "yielded"]
             /\ ret' = [ret EXCEPT ![s] = "finally"]
             /\ obs' = [obs EXCEPT ![s].last = "final"]

\* response.iter_lines() is exhausted: the connection closed without a done event
StreamEnd(s) ==
    /\ pc[s] = "iter"
    /\ Finalize(s)
    /\ obs[s].outcome = "none"
    /\ UNCHANGED <<call, request, lock, thread, cancel_token, current_model_settings, response, chatbot, stop_visible,
                   received>>

\* the loop was left by the break of a done event
AfterLoop(s) ==
    /\ pc[s] = "after_loop"
    /\ Finalize(s)
    /\ UNCHANGED <<call, request, lock, thread, cancel_token, current_model_settings, response, chatbot, stop_visible,
                   received>>

\* requests.post or response.iter_lines() raises
Raises(s, kind) ==
    /\ pc[s] \in {"post", "iter"}
    /\ Handle(s, loc[s], kind)
    /\ obs' = [obs EXCEPT ![s].outcome = "raised", ![s].exc = kind,
                          ![s].last = IF is_cancelled(cancel_token) THEN @ ELSE "error"]
    /\ UNCHANGED <<call, request, lock, thread, cancel_token, current_model_settings, loc, response, chatbot,
                   stop_visible, received>>

\* a faulty finally clause, which C28 must reject: the response is closed and
\* stays registered with the token
CleanupKeepsHandle(s) ==
    /\ response' = [response EXCEPT ![s] = Closed(@)]
    /\ cancel_token' = cancel_token

\* the finally clause (lines 721-728)
Cleanup(s) ==
    /\ response' = [response EXCEPT ![s] = Closed(@)]
    /\ cancel_token' = set_response(cancel_token, None)

(* the body of respond_and_clear's loop after a yield of the generator (lines
   1730-1737): on break the generator is closed, which runs its finally
   clause, and the last yield hides the stop button *)
Wrapper(s) ==
    /\ pc[s] = "yielded"
    /\ chatbot' = [chatbot EXCEPT ![s] = new_history[s]]
    /\ IF is_cancelled(cancel_token)
       THEN /\ Cleanup(s)
            /\ stop_visible' = [stop_visible EXCEPT ![s] = FALSE]
            /\ pc' = [pc EXCEPT ![s] = "end"]
       ELSE /\ stop_visible' = [stop_visible EXCEPT ![s] = TRUE]
            /\ pc' = [pc EXCEPT ![s] = ret[s]]
            /\ UNCHANGED <<response, cancel_token>>
    /\ UNCHANGED <<call, request, lock, thread, current_model_settings, loc, new_history, ret, received, obs>>

(* the generator runs its finally clause and ends; respond_and_clear's loop
   ends and its last yield shows updated_history and hides the stop button
   (lines 721-728, 1736-1737) *)
Finally(s) ==
    /\ pc[s] = "finally"
    /\ Cleanup(s)
    /\ chatbot' = [chatbot EXCEPT ![s] = new_history[s]]
    /\ stop_visible' = [stop_visible EXCEPT ![s] = FALSE]
    /\ pc' = [pc EXCEPT ![s] = "end"]
    /\ UNCHANGED <<call, request, lock, thread, current_model_settings, loc, new_history, ret, received, obs>>

\* stop_response: the edit of the shown history (lines 1747-1757)
StoppedHistory(history, settings) ==
    IF history = <<>> THEN history
    ELSE LET content == LastContent(history)
             c2 == [i \in 1..Len(content) |->
                      IF content[i][1] = "hourglass Thinking with"
                      THEN <<"stop Stopped with", content[i][2]>>
                      ELSE content[i]]
             c3 == IF ~Contains(c2, StopMarker) THEN c2 \o <<NL2, StopMarker>> ELSE c2
         IN  SetLast(history, c3)

\* the stop button's handler stop_response (lines 1739-1760)
Stop(s) ==
    /\ stop_visible[s]
    /\ cancel_token' = cancel(cancel_token)
    /\ response' = [t \in Sessions |->
                      IF cancel_token.response = t THEN Closed(response[t])
                      ELSE response[t]]
    /\ chatbot' = [chatbot EXCEPT ![s] = StoppedHistory(@, current_model_settings)]
    /\ stop_visible' = [stop_visible EXCEPT ![s] = FALSE]
    /\ obs' = [t \in Sessions |->
                 [obs[t] EXCEPT !.cancel_mid = @ \/ Consuming(t),
                                !.own_stop = @ \/ (t = s),
                                !.stops = IF InFlight(t) /\ @ < 2 THEN @ + 1 ELSE @]]
    /\ UNCHANGED <<call, request, lock, thread, current_model_settings, pc, loc, new_history, ret, received>>

-----------------------------------------------------------------------------
(* Specifications *)

\* the scenario of one tool call: a tool_call, its tool_result, a text, done
ScenarioLines(n) ==
    CASE n = 1 -> { Data(ev) : ev \in ToolCallEvents(n) }
      [] n = 2 -> { Data(ev) : ev \in ToolResultEvents(n) }
      [] n = 3 -> { Data(ev) : ev \in TextEvents(n) }
      [] n = 4 -> { Data([type |-> "done"]) }
      [] OTHER -> {}

\* the lines that position k of a stream may hold, by the kind of stream
LinesOf(stream, k) ==
    CASE stream = "shared" -> SharedLines(k)
      [] stream = "scenario" -> ScenarioLines(k)
      [] OTHER -> Lines(k)

\* the steps of the turn of session s on a stream of at most n lines
Turn(s, n, stream) ==
    \/ \E message \in Messages : Submit(s, message)
    \/ Begin(s)
    \/ \E status \in {200, 500} : Post(s, status)
    \/ Register(s)
    \/ (Len(received[s]) < n /\ \E line \in LinesOf(stream, Len(received[s]) + 1) : ReadLine(s, line))
    \/ StreamEnd(s)
    \/ AfterLoop(s)
    \/ \E kind \in ExcKinds : Raises(s, kind)
    \/ Wrapper(s)
    \/ Finally(s)
    \/ Stop(s)

\* two sessions at once on the one token
Next == \E s \in Sessions : Turn(s, MaxLinesShared, "shared")

Spec == Init /\ [][Next]_vars

\* one session, every kind of line
NextTurn == Turn("A", MaxLines, "any")

SpecTurn == Init /\ [][NextTurn]_vars

NextScenario == Turn("A", MaxScenarioLines, "scenario")

SpecScenario == Init /\ [][NextScenario]_vars

-----------------------------------------------------------------------------
(* The settings handlers (lines 1548-1590, 1812-1820) *)

\* the model dropdown changes
UpdateModel(model_value) ==
    /\ current_model_settings' = update_model(current_model_settings, model_value)
    /\ UNCHANGED <<call, cancel_token, pc, loc, new_history, response, ret, chatbot,
                   stop_visible, received, obs, request, lock, thread>>

\* the Save Keys button
SaveApiKeys(tavily_val, anthropic_val, google_val, openai_val, xai_val) ==
    /\ current_model_settings' =
           save_api_keys(current_model_settings, tavily_val, anthropic_val, google_val,
                         openai_val, xai_val)
    /\ UNCHANGED <<call, cancel_token, pc, loc, new_history, response, ret, chatbot,
                   stop_visible, received, obs, request, lock, thread>>

\* the Clear Keys button
ClearApiKeys ==
    /\ current_model_settings' = clear_api_keys(current_model_settings)
    /\ UNCHANGED <<call, cancel_token, pc, loc, new_history, response, ret, chatbot,
                   stop_visible, received, obs, request, lock, thread>>

\* the turn of s has not built its request yet; from then on it reads the
\* settings no more
BeforeRequest(s) == pc[s] \in {"idle", "started"}

\* one session whose user changes the settings until the request is built
NextSettings ==
    \/ BeforeRequest("A") /\ \E model_value \in AVAILABLE_MODELS : UpdateModel(model_value)
    \/ BeforeRequest("A")
         /\ \E tavily_val \in KeyInputs("tavily"), anthropic_val \in KeyInputs("anthropic"),
               google_val \in KeyInputs("google"), openai_val \in KeyInputs("openai"),
               xai_val \in KeyInputs("xai") :
                 SaveApiKeys(tavily_val, anthropic_val, google_val, openai_val, xai_val)
    \/ BeforeRequest("A") /\ ClearApiKeys
    \/ Turn("A", MaxSettingsLines, "shared")

SpecSettings == Init /\ [][NextSettings]_vars

-----------------------------------------------------------------------------
(* Several turns of one session *)

\* the turn of s is over and its user may submit the next message: the next
\* call of respond_and_clear gets the shown history and fresh locals
Again(s) ==
    /\ pc[s] = "end"
    /\ Len(chatbot[s]) <= 2 * (MaxTurns - 1)
    /\ pc' = [pc EXCEPT ![s] = "idle"]
    /\ loc' = [loc EXCEPT ![s] = InitLocals]
    /\ response' = [response EXCEPT ![s] = NoResponseYet]
    /\ ret' = [ret EXCEPT ![s] = "iter"]
    /\ received' = [received EXCEPT ![s] = <<>>]
    /\ obs' = [obs EXCEPT ![s] = InitObs]
    /\ request' = [request EXCEPT ![s] = NoRequest]
    /\ UNCHANGED <<call, cancel_token, current_model_settings, new_history, chatbot,
                   stop_visible, lock, thread>>

NextSession ==
    \/ Turn("A", MaxSessionLines, "shared")
    \/ Again("A")

SpecSession == Init /\ [][NextSession]_vars

-----------------------------------------------------------------------------
(* The token's methods statement by statement (lines 91-112): each body is  *)
(* a with self._lock block                                                   *)

Methods == {"cancel", "is_cancelled", "set_response", "reset"}

\* the arguments of a call: a response for set_response
Args(method) == IF method = "set_response" THEN {"A", None} ELSE {None}

\* a thread calls a method of the token; the response that set_response is
\* given is one that requests.post returned
LockCall(t, method, arg) ==
    /\ thread[t].pc = "idle"
    /\ thread' = [thread EXCEPT ![t] = [pc |-> "acquire", method |-> method,
                                        arg |-> arg, result |-> thread[t].result,
                                        exc |-> None]]
    /\ response' = IF arg = None \/ response[arg].obtained THEN response
                   ELSE [response EXCEPT ![arg] = Obtained(200)]
    /\ UNCHANGED <<call, cancel_token, current_model_settings, pc, loc, new_history, ret,
                   chatbot, stop_visible, received, obs, request, lock>>

\* a faulty entry of the with block, which C12 must reject: the lock is
\* taken without waiting for its holder
LockAcquireUnguarded(t) ==
    /\ thread[t].pc = "acquire"
    /\ lock' = t
    /\ thread' = [thread EXCEPT ![t].pc = "first"]
    /\ UNCHANGED <<call, cancel_token, current_model_settings, pc, loc, new_history, response,
                   ret, chatbot, stop_visible, received, obs, request>>

\* with self._lock: entry, which waits until no thread holds the lock
LockAcquire(t) ==
    /\ thread[t].pc = "acquire"
    /\ lock = None
    /\ lock' = t
    /\ thread' = [thread EXCEPT ![t].pc = "first"]
    /\ UNCHANGED <<call, cancel_token, current_model_settings, pc, loc, new_history, response,
                   ret, chatbot, stop_visible, received, obs, request>>

\* the first statement of the method's body
TokenFirst(t) ==
    /\ thread[t].pc = "first"
    /\ LET m == thread[t].method
       IN  CASE m = "cancel" ->
                  /\ cancel_token' = [cancel_token EXCEPT !.cancelled = TRUE]
                  /\ thread' = [thread EXCEPT ![t].pc = "second"]
             [] m = "is_cancelled" ->
                  /\ thread' = [thread EXCEPT ![t].pc = "release",
                                              ![t].result = IF cancel_token.cancelled THEN "True"
                                                           ELSE "False"]
                  /\ UNCHANGED cancel_token
             [] m = "set_response" ->
                  /\ cancel_token' = [cancel_token EXCEPT !.response = thread[t].arg]
                  /\ thread' = [thread EXCEPT ![t].pc = "release"]
             [] m = "reset" ->
                  /\ cancel_token' = [cancel_token EXCEPT !.cancelled = FALSE]
                  /\ thread' = [thread EXCEPT ![t].pc = "second"]
    /\ UNCHANGED <<call, current_model_settings, pc, loc, new_history, response, ret, chatbot,
                   stop_visible, received, obs, request, lock>>

\* a faulty cancel, which C24 must reject: an exception of close() is not
\* caught and leaves cancel()
TokenSecondPropagates(t) ==
    /\ thread[t].pc = "second"
    /\ IF thread[t].method = "cancel"
       THEN /\ \E raises \in BOOLEAN, closes \in BOOLEAN :
                 /\ raises \/ closes
                 /\ raises => cancel_token.response # None
                 /\ response' = [s \in Sessions |->
                                   IF cancel_token.response = s /\ closes
                                   THEN Closed(response[s]) ELSE response[s]]
                 /\ thread' = [thread EXCEPT ![t].pc = "release",
                                             ![t].exc = IF raises THEN "raised" ELSE @]
            /\ UNCHANGED cancel_token
       ELSE /\ cancel_token' = [cancel_token EXCEPT !.response = None]
            /\ thread' = [thread EXCEPT ![t].pc = "release"]
            /\ UNCHANGED response
    /\ UNCHANGED <<call, current_model_settings, pc, loc, new_history, ret, chatbot,
                   stop_visible, received, obs, request, lock>>

(* the second statement of the bodies of cancel and reset.  In cancel it is
   the try block of lines 94-98: self._response.close() is called when a
   response is registered; it may raise, having closed the handle or not, and
   the bare except clause catches what it raises *)
TokenSecond(t) ==
    /\ thread[t].pc = "second"
    /\ IF thread[t].method = "cancel"
       THEN /\ \E raises \in BOOLEAN, closes \in BOOLEAN :
                 /\ raises \/ closes
                 /\ raises => cancel_token.response # None
                 /\ response' = [s \in Sessions |->
                                   IF cancel_token.response = s /\ closes
                                   THEN Closed(response[s]) ELSE response[s]]
                 /\ thread' = [thread EXCEPT ![t].pc = "release",
                                             ![t].exc = IF raises THEN "swallowed" ELSE @]
            /\ UNCHANGED cancel_token
       ELSE /\ cancel_token' = [cancel_token EXCEPT !.response = None]
            /\ thread' = [thread EXCEPT ![t].pc = "release"]
            /\ UNCHANGED response
    /\ UNCHANGED <<call, current_model_settings, pc, loc, new_history, ret, chatbot,
                   stop_visible, received, obs, request, lock>>

\* the with block is left
LockRelease(t) ==
    /\ thread[t].pc = "release"
    /\ lock' = IF lock = t THEN None ELSE lock
    /\ thread' = [thread EXCEPT ![t].pc = "idle"]
    /\ UNCHANGED <<call, cancel_token, current_model_settings, pc, loc, new_history, response,
                   ret, chatbot, stop_visible, received, obs, request>>

NextLock ==
    \E t \in Threads :
        \/ \E method \in Methods : \E arg \in Args(method) : LockCall(t, method, arg)
        \/ LockAcquire(t)
        \/ TokenFirst(t)
        \/ TokenSecond(t)
        \/ LockRelease(t)

SpecLock == Init /\ [][NextLock]_vars

-----------------------------------------------------------------------------
(* The MCP tool functions statement by statement *)

\* the tool function f is called and enters its try block
ToolCall(f) ==
    /\ call[f].pc \in {"idle", "returned"}
    /\ call' = [call EXCEPT ![f] = [IdleCall EXCEPT !.pc = "post"]]
    /\ UNCHANGED <<cancel_token, current_model_settings, pc, loc, new_history, response,
                   ret, chatbot, stop_visible, received, obs, request, lock, thread>>

\* requests.post returns the answer of the API server
ToolPostReturns(f, status, body) ==
    /\ call[f].pc = "post"
    /\ call' = [call EXCEPT ![f].pc = "check",
                            ![f].reply = [status |-> status, body |-> body]]
    /\ UNCHANGED <<cancel_token, current_model_settings, pc, loc, new_history, response,
                   ret, chatbot, stop_visible, received, obs, request, lock, thread>>

\* requests.post raises
ToolPostRaises(f, kind) ==
    /\ call[f].pc = "post"
    /\ call' = [call EXCEPT ![f].pc = "except", ![f].exc = kind]
    /\ UNCHANGED <<cancel_token, current_model_settings, pc, loc, new_history, response,
                   ret, chatbot, stop_visible, received, obs, request, lock, thread>>

\* if response.status_code == 200: return response.json(), else the error dict
ToolCheck(f) ==
    /\ call[f].pc = "check"
    /\ LET reply == call[f].reply
       IN  call' = [call EXCEPT ![f] =
                      IF reply.status = 200
                      THEN IF json_raises(reply)
                           THEN [@ EXCEPT !.pc = "except", !.exc = "JSONDecodeError"]
                           ELSE [@ EXCEPT !.pc = "returned", !.result = ReturnBody(reply)]
                      ELSE [@ EXCEPT !.pc = "returned", !.result = StatusError(reply)]]
    /\ UNCHANGED <<cancel_token, current_model_settings, pc, loc, new_history, response,
                   ret, chatbot, stop_visible, received, obs, request, lock, thread>>

\* a faulty handler, which C30 must reject: only the connection error is
\* caught, every other exception leaves the function
ToolExceptConnectionOnly(f) ==
    /\ call[f].pc = "except"
    /\ call' = [call EXCEPT ![f] =
                  IF call[f].exc = "RequestsConnectionError"
                  THEN [@ EXCEPT !.pc = "returned", !.result = ExceptError(call[f].exc)]
                  ELSE [@ EXCEPT !.pc = "raised"]]
    /\ UNCHANGED <<cancel_token, current_model_settings, pc, loc, new_history, response,
                   ret, chatbot, stop_visible, received, obs, request, lock, thread>>

\* the except clauses: requests.exceptions.ConnectionError, then Exception
ToolExcept(f) ==
    /\ call[f].pc = "except"
    /\ call' = [call EXCEPT ![f].pc = "returned", ![f].result = ExceptError(call[f].exc)]
    /\ UNCHANGED <<cancel_token, current_model_settings, pc, loc, new_history, response,
                   ret, chatbot, stop_visible, received, obs, request, lock, thread>>

NextTools ==
    \E f \in McpTools :
        \/ ToolCall(f)
        \/ \E status \in Statuses, body \in Bodies : ToolPostReturns(f, status, body)
        \/ \E kind \in PostExceptions : ToolPostRaises(f, kind)
        \/ ToolCheck(f)
        \/ ToolExcept(f)

SpecTools == Init /\ [][NextTools]_vars

-----------------------------------------------------------------------------
(* Reading a turn *)

IsEvent(line) == line.kind = "data" /\ line.json = "object"
EvType(line) == IF IsEvent(line) THEN line.ev.type ELSE "none"
Malformed(line) == line.kind = "data" /\ line.json # "object"

IsPrefix(p, t) == Len(p) <= Len(t) /\ SubSeq(t, 1, Len(p)) = p
EndsWith(t, u) == Len(u) <= Len(t) /\ SubSeq(t, Len(t) - Len(u) + 1, Len(t)) = u
ContainsSub(t, u) ==
    \E i \in 0..Len(t) : i + Len(u) <= Len(t) /\ SubSeq(t, i + 1, i + Len(u)) = u
Count(t, tok) == Cardinality({ i \in 1..Len(t) : t[i] = tok })
Max(S) == CHOOSE x \in S : \A y \in S : y <= x

\* the generator of the turn has finished
Finished(s) == pc[s] = "end"

\* the content of the last assistant message of the turn's transcript
Content(s) == LastContent(new_history[s])

\* the part of the last assistant message after the finalized blocks
ResponseText(s) ==
    SubSeq(Content(s), Len(loc[s].tool_calls_content) + 1, Len(Content(s)))

\* the position of the last tool_call or tool_result event, 0 when there is none
LastToolPos(lines) ==
    LET S == { i \in 1..Len(lines) : EvType(lines[i]) \in {"tool_call", "tool_result"} }
    IN  IF S = {} THEN 0 ELSE Max(S)

\* the content of the text and thinking events from position i on, in arrival order
RECURSIVE TextFrom(_, _)
TextFrom(lines, i) ==
    IF i > Len(lines) THEN <<>>
    ELSE (IF EvType(lines[i]) \in {"text", "thinking"} THEN lines[i].ev.content ELSE <<>>)
           \o TextFrom(lines, i + 1)

TextAfterLastTool(lines) == TextFrom(lines, LastToolPos(lines) + 1)

-----------------------------------------------------------------------------
(* C1 *)

\* C1: when a stream ends in a done event (no cancellation, no network
\* failure), the response text of the final assistant message, the part after
\* the tool-call, tool-result and reasoning blocks, is the concatenation in
\* arrival order of the text and thinking content received after the last
\* tool_call/tool_result event (of all of it when no tool was called).  Stated
\* for streams that carry such text; C29 is about the filler shown otherwise.
C1_ResponseIsTextAfterLastTool ==
    \A s \in Sessions :
        ( /\ Finished(s)
          /\ obs[s].outcome = "done"
          /\ obs[s].last = "final"
          /\ obs[s].stops = 0
          /\ TextAfterLastTool(received[s]) # <<>> )
        => ResponseText(s) = TextAfterLastTool(received[s])

-----------------------------------------------------------------------------
(* C2, C3, C10: cancellation *)

\* C2: once cancel() has been called while the turn consumes its stream, the
\* next poll of is_cancelled() in the loop returns true, and once a poll has
\* returned true the turn reads no further line.
C2_PollAfterCancelIsTrue ==
    \A s \in Sessions :
        /\ ~obs[s].poll_false
        /\ obs[s].poll_true => ~Consuming(s)

EndsWithMarkerOnce(content) ==
    /\ EndsWith(content, <<StopMarker>>)
    /\ Count(content, StopMarker) = 1

\* C3: a turn that was cancelled while it consumed its stream ends with a
\* transcript whose last assistant message ends with the stop marker and
\* holds it exactly once, however the stream behaves after the cancel and
\* however often cancel() was called.
C3_CancelledTurnEndsWithMarker ==
    \A s \in Sessions :
        (Finished(s) /\ obs[s].cancel_mid)
        => /\ EndsWithMarkerOnce(Content(s))
           /\ EndsWithMarkerOnce(LastContent(chatbot[s]))

\* a step of the handlers of session s
Acted(s) ==
    <<pc[s], received[s], stop_visible[s]>>' # <<pc[s], received[s], stop_visible[s]>>

\* C10: session state is private: while the turn of a session is in flight,
\* no step of another session (its reset(), cancel() or end-of-turn cleanup)
\* changes the cancelled flag or the registered response that the turn observes.
C10_TokenPrivateToSession ==
    [][ \A s \in Sessions :
          (InFlight(s) /\ ~Acted(s)) => cancel_token' = cancel_token ]_vars

-----------------------------------------------------------------------------
(* C4, C5: the transcript after each event *)

\* C4: right after a processed stream event the last assistant message is the
\* finalized tool-call, tool-result and reasoning blocks followed by the
\* in-progress text: the pending reasoning buffer and the response text are
\* both in what follows the blocks.
C4_DisplayIsBlocksThenInProgressText ==
    \A s \in Sessions :
        (pc[s] = "yielded" /\ obs[s].last = "event")
        => /\ IsPrefix(loc[s].tool_calls_content, Content(s))
           /\ Strip(loc[s].current_thinking) # <<>>
                => ContainsSub(ResponseText(s), loc[s].current_thinking)
           /\ ContainsSub(ResponseText(s), loc[s].bot_response)

\* the tokens that the event at position j of the stream put into a text
Carries(tok, x) == \E k \in 1..Len(tok) : tok[k] = x

IsCallBlock(tok) == tok[1] = "tool_call"

\* the position in a text of its m-th tool-call record, 0 when there is none
CallPos(text, m) ==
    LET P == { p \in 1..Len(text) :
                 /\ IsCallBlock(text[p])
                 /\ Cardinality({ q \in 1..p : IsCallBlock(text[q]) }) = m }
    IN  IF P = {} THEN 0 ELSE Max(P)

\* the number of tool_call events among the first i lines
CallsUpTo(lines, i) == Cardinality({ k \in 1..i : EvType(lines[k]) = "tool_call" })

\* in a text, the record of every tool call precedes all that later events
\* of the stream put into it
CallsPrecedeLater(text, lines) ==
    \A i \in 1..Len(lines) :
        EvType(lines[i]) = "tool_call" =>
            \A j \in (i + 1)..Len(lines) :
                \A p \in 1..Len(text) :
                    Carries(text[p], Idx[j]) =>
                        LET c == CallPos(text, CallsUpTo(lines, i))
                        IN  /\ c # 0
                            /\ c < p
                            /\ text[c][2] = (IF lines[i].ev.toolName = Absent
                                             THEN "unknown" ELSE lines[i].ev.toolName)

\* C5: in every transcript the turn yields, the record of a tool call stands
\* before the record of its result and before the reasoning and response
\* text that arrived after the call.
C5_ToolCallBeforeResultAndLaterText ==
    \A s \in Sessions :
        new_history[s] # <<>> =>
            /\ CallsPrecedeLater(Content(s), received[s])
            /\ CallsPrecedeLater(LastContent(chatbot[s]), received[s])

IsResultBlock(tok) == tok[1] \in {"tool_result", "assessment_result"}

\* a transcript that shows a tool call, then its result, then later text
C5_Witness ==
    LET text == Content("A")
    IN  /\ new_history["A"] # <<>>
        /\ \E p, q, r \in 1..Len(text) :
              /\ p < q /\ q < r
              /\ IsCallBlock(text[p])
              /\ IsResultBlock(text[q])
              /\ text[r] = Ch(Idx[3])

-----------------------------------------------------------------------------
(* C6, C7: lines and events *)

\* C6: a malformed line, one that carries the 'data: ' marker and whose rest
\* is no well-formed event, is skipped: reading it raises nothing, leaves the
\* transcript and the reducer's state as they were, and the loop goes on to
\* the next line.
C6_MalformedLineSkipped ==
    [][ \A s \in Sessions :
          ( /\ received'[s] # received[s]
            /\ Malformed(received'[s][Len(received'[s])])
            /\ ~is_cancelled(cancel_token) )
          => /\ loc'[s] = loc[s]
             /\ new_history'[s] = new_history[s]
             /\ pc'[s] = "iter" ]_vars

\* the tool name the reducer uses for the tool_call at line 1 and the
\* tool_result at line 2
CallName(lines) ==
    IF lines[1].ev.toolName = Absent THEN "unknown" ELSE lines[1].ev.toolName
ResultName(lines) ==
    IF lines[2].ev.toolName = Absent THEN CallName(lines) ELSE lines[2].ev.toolName

\* the text holds the formatted tool call, then the formatted tool result,
\* then the literal text of the third event
ScenarioInOrder(text, lines) ==
    \E p, q \in 1..Len(text) :
        /\ p < q
        /\ <<text[p]>> = format_tool_call(CallName(lines), lines[1].ev.args)
        /\ <<text[q]>> = format_tool_result(ResultName(lines), lines[2].ev.result)
        /\ ContainsSub(SubSeq(text, q + 1, Len(text)), lines[3].ev.content)

\* C7: for the events tool_call(T, args), tool_result(T, result), text(S),
\* done, with any tool name, arguments, result and text, the reducer
\* processes all four and the final assistant message holds the formatted
\* tool call, then the formatted tool result, then S.
C7_ScenarioBlocksThenText ==
    \A s \in Sessions :
        (obs[s].stops = 0 /\ obs[s].exc \notin ExcKinds)
        => /\ obs[s].exc # "AttributeError"
           /\ (Finished(s) /\ Len(received[s]) = 4)
                => ScenarioInOrder(Content(s), received[s])

-----------------------------------------------------------------------------
(* C8, C9: failures of the connection *)

NetworkFailures == {"RequestsConnectionError", "Timeout", "ChunkedEncodingError"}

ErrorTokens == {ErrCannotConnect, ErrTimedOut, ErrInterrupted, ErrException}

SomeEvent(lines) == \E i \in 1..Len(lines) : IsEvent(lines[i])

\* C8: when the connection fails after some events were processed and the
\* turn was not cancelled, the final assistant message holds all that was
\* accumulated (the finalized blocks, the partial text received, the response
\* text) and the error message after it.
C8_FailureKeepsPartialResults ==
    \A s \in Sessions :
        ( /\ obs[s].last = "error"
          /\ obs[s].exc \in NetworkFailures
          /\ SomeEvent(received[s]) )
        => /\ IsPrefix(loc[s].tool_calls_content, Content(s))
           /\ ContainsSub(ResponseText(s), loc[s].current_thinking)
           /\ ContainsSub(ResponseText(s), loc[s].bot_response)
           /\ Content(s)[Len(Content(s))] \in ErrorTokens

\* the text is one error message and nothing else: no block, no streamed text
OneErrorOnly(text, kind) ==
    LET shown == SelectSeq(text, LAMBDA tok : tok # NL2)
    IN  /\ Len(shown) = 1
        /\ shown[1] \in ErrorTokens
        /\ kind = "RequestsConnectionError" => text = <<ErrCannotConnect>>

\* C9 as stated: a connection error raised before any stream event was
\* received leaves exactly one error message as the final assistant message.
C9_ErrorBeforeEventsIsOnlyMessage ==
    \A s \in Sessions :
        ( /\ Finished(s)
          /\ obs[s].exc \in ExcKinds
          /\ ~SomeEvent(received[s]) )
        => OneErrorOnly(Content(s), obs[s].exc)

\* C9, amended: a connection error raised before any stream event was
\* received, and handled while is_cancelled() is false, leaves exactly one
\* error message as the assistant message, with no tool-call, tool-result or
\* reasoning block.
C9_UncancelledErrorBeforeEventsIsOnlyMessage ==
    \A s \in Sessions :
        ( /\ obs[s].exc \in ExcKinds
          /\ obs[s].last = "error"
          /\ ~SomeEvent(received[s]) )
        => OneErrorOnly(Content(s), obs[s].exc)

\* a turn that ended on a connection error before any event, not cancelled
C9_Witness ==
    /\ Finished("A")
    /\ obs["A"].exc = "RequestsConnectionError"
    /\ obs["A"].last = "error"
    /\ obs["A"].stops = 0
    /\ received["A"] = <<>>

-----------------------------------------------------------------------------
(* C11, C12, C13: the token and the connection *)

\* C11: when cancel() was called while the turn of a session was in progress,
\* at any point after the turn's reset(), also while the request was still
\* being opened, the turn's response is closed by the time the turn waits
\* for a line of the stream, so that its read does not block.
C11_CancelClosesResponse ==
    \A s \in Sessions :
        (obs[s].own_stop /\ pc[s] = "iter") => response[s].closed

\* the thread is inside a with self._lock block
InBody(t) == thread[t].pc \in {"first", "second", "release"}

\* the thread has written one of the two fields that cancel and reset write
HalfUpdated(t) == thread[t].pc = "second"

\* C12: every thread inside a body of cancel, is_cancelled, set_response or
\* reset holds the lock, so at most one is inside; every step that writes the
\* cancelled flag or the response handle, and every read of the flag, is
\* taken by the holder of the lock; and no thread reads or writes the token
\* while another has updated only one of the two fields.
C12_TokenAccessUnderLock ==
    [][ /\ \A t \in Threads : InBody(t)' => lock' = t
        /\ cancel_token' # cancel_token
             => \E t \in Threads : lock = t /\ InBody(t) /\ thread'[t] # thread[t]
        /\ \A t \in Threads :
             thread'[t].result # thread[t].result => lock = t
        /\ \A t, u \in Threads :
             (t # u /\ HalfUpdated(u)) => (InBody(t) => thread'[t] = thread[t]) ]_vars

\* reset() has cleared the flag and not yet the handle, while the other
\* thread waits at the lock to cancel or to poll
C12_Witness ==
    \E t, u \in Threads :
        /\ t # u
        /\ thread[t].method = "reset" /\ HalfUpdated(t)
        /\ thread[u].pc = "acquire"
        /\ thread[u].method \in {"cancel", "is_cancelled"}
        /\ cancel_token.response # None

\* an except clause of the turn of s handles an exception in this step
Handles(s) == obs[s].exc = None /\ obs'[s].exc # None

\* C13: when the stream is interrupted (connection error, chunked-encoding
\* error, timeout or any other exception) after cancel() was called for the
\* turn, the except clause writes no error message: the transcript stays as
\* it was.
C13_NoErrorAfterCancel ==
    [][ \A s \in Sessions :
          (Handles(s) /\ obs[s].own_stop) => new_history'[s] = new_history[s] ]_vars

-----------------------------------------------------------------------------
(* C14, C15, C16: how a turn ends *)

\* the error events among the lines
ErrorEvents(lines) == { i \in 1..Len(lines) : EvType(lines[i]) = "error" }

\* C14: a turn that was not cancelled and met a failure ends normally with a
\* message about it in the last assistant message: the error text of the
\* except clause when an exception was raised (connection failure, timeout,
\* interrupted stream, any other), and the error text of every upstream error
\* event that the turn received.
C14_FailureEndsWithVisibleMessage ==
    \A s \in Sessions :
        (Finished(s) /\ obs[s].stops = 0)
        => /\ obs[s].exc # None
                => \E i \in 1..Len(Content(s)) : Content(s)[i] \in ErrorTokens
           /\ \A i \in ErrorEvents(received[s]) :
                ContainsSub(Content(s), ErrorEventText(received[s][i].ev.error))

\* the turn of s has left the loop over response.iter_lines()
LeftLoop(s) ==
    \/ pc[s] \in {"after_loop", "finally", "end"}
    \/ pc[s] = "yielded" /\ ret[s] # "iter"

\* C15: the stream of a turn is read at most once and no further than its
\* first done event: a turn that has left the loop (after a done event, or
\* when the connection closed or failed) reads no line any more, and no line
\* is read after a done event.
C15_StreamReadOnceUpToDone ==
    [][ \A s \in Sessions :
          /\ LeftLoop(s) => received'[s] = received[s]
          /\ \A i \in 1..(Len(received'[s]) - 1) :
               EvType(received'[s][i]) # "done" ]_vars

\* a turn that ended on a done event while its stream could have held more
C15_Witness ==
    /\ Finished("A")
    /\ obs["A"].outcome = "done"
    /\ Len(received["A"]) = 2
    /\ Len(received["A"]) < MaxLines
    /\ EvType(received["A"][1]) = "text"
    /\ obs["A"].stops = 0

\* all messages but the last
Front(history) == SubSeq(history, 1, Len(history) - 1)

\* C16: during a turn only the most recent assistant message changes: the
\* turn starts from the prior history plus the user's message plus one
\* assistant message, and every transcript the generator holds and every
\* history shown while the turn runs has that length and the same messages
\* before the last one.
C16_OnlyLastMessageMutated ==
    [][ \A s \in Sessions :
          /\ (pc[s] = "idle" /\ pc'[s] = "started")
               => /\ Len(new_history'[s]) = Len(chatbot[s]) + 2
                  /\ SubSeq(new_history'[s], 1, Len(chatbot[s])) = chatbot[s]
                  /\ new_history'[s][Len(chatbot[s]) + 1].role = "user"
                  /\ new_history'[s][Len(chatbot[s]) + 2].role = "assistant"
                  /\ chatbot'[s] = new_history'[s]
          /\ (InFlight(s) /\ pc'[s] # "idle")
               => /\ Len(new_history'[s]) = Len(new_history[s])
                  /\ Front(new_history'[s]) = Front(new_history[s])
                  /\ Len(chatbot'[s]) = Len(new_history[s])
                  /\ Front(chatbot'[s]) = Front(new_history[s]) ]_vars

\* the second turn of a session shows an event of its stream after the two
\* messages of the first turn
C16_Witness ==
    /\ Len(new_history["A"]) = 4
    /\ pc["A"] = "yielded"
    /\ obs["A"].last = "event"
    /\ LastContent(new_history["A"]) # <<ThinkingWith(current_model_settings)>>

-----------------------------------------------------------------------------
(* C17, C18: the settings *)

\* the headers that carry a provider's credential
ProviderHeaders ==
    {"X-Modal-Endpoint-URL", "X-OpenAI-API-Key", "X-XAI-API-Key",
     "X-Anthropic-API-Key", "X-Google-API-Key"}

\* the credential header of the provider of a model, and what is stored for it
ProviderHeader(model) ==
    CASE model = "gpt-oss" -> "X-Modal-Endpoint-URL"
      [] model = "gpt-5" -> "X-OpenAI-API-Key"
      [] model = "grok-4-1" -> "X-XAI-API-Key"
      [] model \in {"claude-4.5", "claude-opus"} -> "X-Anthropic-API-Key"
      [] model = "gemini-3" -> "X-Google-API-Key"

Stored(settings, header) ==
    CASE header = "X-Modal-Endpoint-URL" -> settings.modal_endpoint_url
      [] header = "X-OpenAI-API-Key" -> settings.openai_api_key
      [] header = "X-XAI-API-Key" -> settings.xai_api_key
      [] header = "X-Anthropic-API-Key" -> settings.anthropic_api_key
      [] header = "X-Google-API-Key" -> settings.google_api_key

\* C17: in every state of the settings, the headers of a request carry
\* X-AI-Model with the selected model and at most one provider credential
\* header, that of the selected model's provider with the value stored for
\* it; no stored key of another provider is in any header; and the Tavily
\* header is there, with the stored key, exactly when a Tavily key is stored.
C17_HeadersCarryOnlySelectedProvider ==
    \A s \in Sessions :
        request[s] # NoRequest =>
            LET h == request[s]
                st == current_model_settings
                own == ProviderHeader(st.model)
            IN  /\ { e \in h : e[1] = "X-AI-Model" } = { <<"X-AI-Model", st.model>> }
                /\ Cardinality({ e \in h : e[1] \in ProviderHeaders }) <= 1
                /\ \A e \in h : e[1] \in ProviderHeaders
                                  => e[1] = own /\ e[2] = Stored(st, own) /\ e[2] # ""
                /\ \A e \in h : \A other \in ProviderHeaders \ {own} :
                        Stored(st, other) # "" => e[2] # Stored(st, other)
                /\ { e \in h : e[1] = "X-Tavily-API-Key" }
                     = IF st.tavily_api_key # ""
                       THEN { <<"X-Tavily-API-Key", st.tavily_api_key>> } ELSE {}

\* a request for gpt-5 with its key, while the keys of Anthropic and Tavily
\* are stored too
C17_Witness ==
    /\ current_model_settings.model = "gpt-5"
    /\ <<"X-OpenAI-API-Key", UserKeys.openai>> \in request["A"]
    /\ current_model_settings.anthropic_api_key # ""
    /\ current_model_settings.tavily_api_key # ""

\* respond_and_clear is called for session s in this step
Submitted(s) == pc[s] = "idle" /\ pc'[s] # "idle"

\* the selected model is a paid one and no key of its provider is stored
KeyMissing(settings) ==
    settings.model # "gpt-oss" /\ Stored(settings, ProviderHeader(settings.model)) = ""

\* how the message about missing keys names the key of a model's provider
KeyLabel(model) ==
    CASE model \in {"claude-4.5", "claude-opus"} -> "Anthropic API Key"
      [] model = "gemini-3" -> "Google API Key"
      [] model = "gpt-5" -> "OpenAI API Key"
      [] model = "grok-4-1" -> "xAI API Key"
      [] OTHER -> "none"

\* the call ends without a request: the history grows by the user's message
\* and one assistant message that names the missing key, the stop button
\* stays hidden and the token is not reset
RefusedForKey(s) ==
    /\ pc'[s] = "end"
    /\ request'[s] = NoRequest
    /\ Len(chatbot'[s]) = Len(chatbot[s]) + 2
    /\ SubSeq(chatbot'[s], 1, Len(chatbot[s])) = chatbot[s]
    /\ chatbot'[s][Len(chatbot[s]) + 1].role = "user"
    /\ chatbot'[s][Len(chatbot[s]) + 2].role = "assistant"
    /\ \E i \in 1..Len(LastContent(chatbot'[s])) :
          LastContent(chatbot'[s])[i][1] = KeyLabel(current_model_settings.model)
    /\ ~stop_visible'[s]
    /\ cancel_token' = cancel_token

\* C18 as stated: whenever respond_and_clear is called while the selected
\* model is a paid model whose provider key is not stored, it ends without a
\* request, with the history extended by the user's message and the message
\* about the missing key; with gpt-oss selected the key check passes.
C18_NoRequestWithoutKey ==
    [][ \A s \in Sessions :
          /\ (Submitted(s) /\ KeyMissing(current_model_settings)) => RefusedForKey(s)
          /\ current_model_settings.model = "gpt-oss"
               => check_required_keys(current_model_settings) = <<>> ]_vars

\* C18, amended: the same for a call with a message that is not blank; a call
\* with a blank message returns before the key check and leaves the history
\* as it is.
C18_NoRequestWithoutKeyForMessage ==
    [][ \A s \in Sessions :
          /\ (Submitted(s) /\ KeyMissing(current_model_settings)
                /\ obs'[s].outcome # "blank") => RefusedForKey(s)
          /\ (Submitted(s) /\ obs'[s].outcome = "blank")
               => pc'[s] = "end" /\ request'[s] = NoRequest /\ chatbot'[s] = chatbot[s]
          /\ (Submitted(s) /\ current_model_settings.model = "gpt-oss"
                /\ obs'[s].outcome # "blank") => pc'[s] = "started"
          /\ current_model_settings.model = "gpt-oss"
               => check_required_keys(current_model_settings) = <<>> ]_vars

\* a message was refused because the Anthropic key for claude-opus is missing,
\* while the key of another provider is stored
C18_Witness ==
    /\ obs["A"].outcome = "keys"
    /\ current_model_settings.model = "claude-opus"
    /\ current_model_settings.openai_api_key # ""
    /\ Len(chatbot["A"]) = 2

-----------------------------------------------------------------------------
(* C19, C20: the accumulated content *)

\* C19: the lines of the stream are applied in the order of their arrival,
\* and the accumulated tool-call, tool-result and reasoning content only
\* grows at its end: its value before a step is a prefix of its value after.
C19_ToolRecordsAppendOnly ==
    [][ \A s \in Sessions :
          /\ IsPrefix(loc[s].tool_calls_content, loc'[s].tool_calls_content)
          /\ received'[s] # received[s]
               => /\ Front(received'[s]) = received[s]
                  /\ loc'[s] = ProcessLine(loc[s], received'[s][Len(received'[s])],
                                           is_cancelled(cancel_token)).l ]_vars

\* the content holds the block of a tool call, then the block of its result,
\* then a reasoning block that a later event closed
C19_Witness ==
    LET t == loc["A"].tool_calls_content
    IN  /\ Len(received["A"]) = 3
        /\ \E p, q, r \in 1..Len(t) :
              /\ p < q /\ q < r
              /\ IsCallBlock(t[p])
              /\ IsResultBlock(t[q])
              /\ t[r] = <<"/details">>

\* the loop of session s applies an error event in this step
AppliesError(s) ==
    /\ received'[s] # received[s]
    /\ EvType(received'[s][Len(received'[s])]) = "error"
    /\ ~is_cancelled(cancel_token)

-----------------------------------------------------------------------------
(* C21, C22: what tool_call and step_finish do with the reasoning buffer *)

\* the line that the loop of session s reads in this step
NewLine(s) == received'[s][Len(received'[s])]

\* the loop of session s applies an event of the given type in this step
Applies(s, type) ==
    /\ received'[s] # received[s]
    /\ EvType(NewLine(s)) = type
    /\ ~is_cancelled(cancel_token)

\* the reasoning block of a text, attributed to a tool (None: to no tool)
ReasoningBlock(text, tool_name) ==
    << IF tool_name # None
       THEN <<"details", "AI Reasoning (before", Title(tool_name)>>
       ELSE <<"details", "AI Reasoning">> >>
      \o Strip(text) \o << <<"/details">> >>

\* C21: a tool_call event moves the reasoning text accumulated so far into a
\* collapsed reasoning block attributed to the tool, which stands right
\* before the record of the invocation (tool name and arguments) at the end
\* of the finalized content; the reasoning buffer is empty afterwards; and
\* the displayed content ends with the processing placeholder of the tool.
C21_ToolCallFlushesReasoning ==
    [][ \A s \in Sessions :
          Applies(s, "tool_call") =>
            LET ev == NewLine(s).ev
                tool_name == IF ev.toolName = Absent THEN "unknown" ELSE ev.toolName
                buffer == loc[s].current_thinking
                after == loc'[s].tool_calls_content
            IN  /\ IsPrefix(loc[s].tool_calls_content, after)
                /\ EndsWith(after, format_tool_call(tool_name, ev.args))
                /\ Strip(buffer) # <<>>
                     => after = loc[s].tool_calls_content
                                  \o ReasoningBlock(buffer, tool_name)
                                  \o format_tool_call(tool_name, ev.args)
                /\ loc'[s].current_thinking = <<>>
                /\ EndsWith(LastContent(new_history'[s]),
                            format_thinking_indicator(tool_name)) ]_vars

\* C22: a step_finish event appends the pending reasoning buffer to the
\* finalized content as a reasoning block and empties the buffer; when the
\* buffer is empty it leaves the finalized content as it is.
C22_StepFinishFlushesReasoning ==
    [][ \A s \in Sessions :
          Applies(s, "step_finish") =>
            LET buffer == loc[s].current_thinking
            IN  /\ buffer # <<>>
                     => loc'[s].tool_calls_content
                          = loc[s].tool_calls_content \o ReasoningBlock(buffer, None)
                /\ loc'[s].current_thinking = <<>>
                /\ buffer = <<>>
                     => loc'[s].tool_calls_content = loc[s].tool_calls_content ]_vars

-----------------------------------------------------------------------------
(* C23, C24, C25: reset() and cancel() *)

\* the states a token can be in
TokenStates == [cancelled : BOOLEAN, response : Sessions \cup {None}]

\* the turn of s builds and sends its request in this step
Sends(s) == pc[s] = "started" /\ pc'[s] = "post"

\* C23: reset() returns the token to idle from any state (is_cancelled() is
\* false and no response is registered); every turn that sends a request has
\* called reset() right before it sends it; and a turn is stopped only by a
\* cancellation of its own: a poll of is_cancelled() in its loop returns true
\* only when its own stop button was clicked, never because another turn,
\* begun earlier, was cancelled.
C23_ResetIsolatesTurns ==
    [][ /\ \A tok \in TokenStates :
             /\ ~is_cancelled(reset(tok))
             /\ reset(tok).response = None
        /\ \A s \in Sessions :
             /\ Sends(s) => cancel_token' = reset(cancel_token)
             /\ obs'[s].poll_true => obs'[s].own_stop ]_vars

\* the thread takes the step at the given place of a call of cancel()
CancelStep(t, place) ==
    thread[t].method = "cancel" /\ thread[t].pc = place /\ thread'[t].pc # place

\* C24: cancel() sets the cancelled flag and then tries to close the
\* registered response: the handle is closed unless close() raised; what
\* close() raises is swallowed, so that cancel() goes on to its end, returns
\* normally (no exception leaves it, the lock is released) and the token is
\* cancelled when it returns; and a call of cancel() on a token that is
\* cancelled already leaves the token as it is.
C24_CancelSwallowsCloseFailure ==
    [][ \A t \in Threads :
          /\ CancelStep(t, "first")
               => /\ is_cancelled(cancel_token')
                  /\ cancel_token'.response = cancel_token.response
                  /\ is_cancelled(cancel_token) => cancel_token' = cancel_token
          /\ CancelStep(t, "second")
               => /\ cancel_token' = cancel_token
                  /\ cancel_token.response # None
                       => \/ response'[cancel_token.response].closed
                          \/ thread'[t].exc = "swallowed"
                  /\ thread'[t].pc = "release"
          /\ thread'[t].exc # "raised"
          /\ CancelStep(t, "release")
               => /\ is_cancelled(cancel_token')
                  /\ cancel_token' = cancel_token
                  /\ thread'[t].pc = "idle"
                  /\ lock' = None ]_vars

\* a call of cancel() has returned after close() raised and left the handle
\* open, and a second call of cancel() is about to return on the token that
\* is still cancelled
C24_Witness ==
    \E t, u \in Threads :
        /\ t # u
        /\ thread[t].method = "cancel" /\ thread[t].pc = "idle"
        /\ thread[t].exc = "swallowed"
        /\ thread[u].method = "cancel" /\ thread[u].pc = "release"
        /\ is_cancelled(cancel_token)
        /\ cancel_token.response = "A"
        /\ ~response["A"].closed

\* C25: once respond_and_clear has reset the token and shown the stop
\* button, a cancel() issued for the turn is not undone while the turn is in
\* flight: is_cancelled() stays true until the turn ends, and the loop
\* applies no event any more: the next line it reads meets a poll that
\* returns true.
C25_CancelNotUndoneWithinTurn ==
    [][ \A s \in Sessions :
          (obs[s].own_stop /\ InFlight(s))
          => /\ is_cancelled(cancel_token)
             /\ received'[s] # received[s] => obs'[s].poll_true ]_vars

-----------------------------------------------------------------------------
(* C26, C27: error events and phase hints *)

\* C26: once an error event was rendered into the transcript, its message
\* stays in the last assistant message after every later event of the turn
\* and in the final message written after done or at the end of the stream.
C26_ErrorMessageStays ==
    \A s \in Sessions :
        (new_history[s] # <<>> /\ obs[s].stops = 0 /\ obs[s].last \in {"event", "final"})
        => \A i \in ErrorEvents(received[s]) :
             ContainsSub(Content(s), ErrorEventText(received[s][i].ev.error))

\* the phase hints a server may put on a text event
PhaseHints == {"thinking", "potential_response"} \X BOOLEAN

\* the lines that differ from a line in the phase hints only: phase and
\* hasHadToolCalls of a text event, hasHadToolCalls of a step_finish event
HintVariants(line) ==
    CASE EvType(line) = "text" ->
            { [line EXCEPT !.ev.phase = f[1], !.ev.hasHadToolCalls = f[2]] :
                f \in PhaseHints }
      [] EvType(line) = "step_finish" ->
            { [line EXCEPT !.ev.hasHadToolCalls = b] : b \in BOOLEAN }
      [] OTHER -> {line}

\* the sequences of lines that differ from a sequence in the phase hints only
RECURSIVE VariantSeqs(_)
VariantSeqs(lines) ==
    IF lines = <<>> THEN { <<>> }
    ELSE { <<h>> \o t : h \in HintVariants(Head(lines)), t \in VariantSeqs(Tail(lines)) }

\* the reducer's locals after it applied a sequence of lines, none cancelled
RECURSIVE Reduce(_, _)
Reduce(l, lines) ==
    IF lines = <<>> THEN l
    ELSE Reduce(ParseLine(l, Head(lines)).l, Tail(lines))

\* the turn of s ran without cancel() and without an exception so far
Undisturbed(s) == obs[s].stops = 0 /\ obs[s].exc = None

\* C27: the reducer's result does not depend on the phase hints: the
\* accumulated state (finalized blocks, reasoning buffer, response text)
\* after every event, and the final assistant message, are those that the
\* reducer reaches on every sequence of events that differs from the one
\* received in the phase and hasHadToolCalls fields only.
C27_ResultIndependentOfPhaseHints ==
    \A s \in Sessions :
        (Undisturbed(s) /\ new_history[s] # <<>>) =>
            \A other \in VariantSeqs(received[s]) :
                LET l == Reduce(InitLocals, other)
                IN  IF obs[s].last = "final"
                    THEN /\ loc[s] = EnsureFinal(l).l
                         /\ Content(s) = EnsureFinal(l).show[1]
                    ELSE loc[s] = l

\* a finished turn whose stream carried a tool call, then a text event and a
\* step_finish event with hints other than the default ones
C27_Witness ==
    /\ Finished("A") /\ Undisturbed("A") /\ obs["A"].last = "final"
    /\ Len(received["A"]) = 3
    /\ EvType(received["A"][1]) = "tool_call"
    /\ EvType(received["A"][2]) = "text"
    /\ received["A"][2].ev.phase = "potential_response"
    /\ received["A"][2].ev.hasHadToolCalls
    /\ EvType(received["A"][3]) = "step_finish"
    /\ received["A"][3].ev.hasHadToolCalls

-----------------------------------------------------------------------------
(* C28: the end of the generator *)

\* the generator of the turn of s finishes in this step
Finishes(s) == pc[s] # "end" /\ pc'[s] = "end"

\* C28: on every path on which the generator finishes after requests.post
\* returned a response (done, end of stream, status other than 200,
\* cancellation, exception), close() was called on the response and the
\* token holds no response when the generator finishes; the token never
\* holds the response of a finished turn, so that a later cancel() closes no
\* handle of a finished turn.
C28_FinishedTurnLeavesNoHandle ==
    [][ \A s \in Sessions :
          /\ (Finishes(s) /\ response[s].obtained)
               => /\ response'[s].closed
                  /\ cancel_token'.response = None
          /\ (Finished(s) /\ response[s].obtained)
               => /\ response[s].closed
                  /\ cancel_token.response # s
                  /\ cancel_token'.response # s ]_vars

\* the turn of A ended on a done event with nobody cancelling it, its
\* response is closed, and cancel() was called afterwards for the turn of B
C28_Witness ==
    /\ Finished("A") /\ obs["A"].outcome = "done" /\ obs["A"].stops = 0
    /\ response["A"].closed
    /\ obs["B"].own_stop
    /\ is_cancelled(cancel_token)

-----------------------------------------------------------------------------
(* C29: the final message *)

\* the turn of s ended by the code after the loop, with no cancel() and no
\* exception
EndedNormally(s) == Finished(s) /\ Undisturbed(s) /\ obs[s].last = "final"

\* C29: a turn that ends without cancellation and without an exception does
\* not end with an empty assistant message: the final message is the
\* finalized blocks followed by the response text; text that was accumulated
\* and not finalized when the stream closed without a done event is used as
\* the response; and the fixed text 'No response generated.' stands for the
\* response exactly when there is no response text and no pending text.
C29_FinalMessageNeverEmpty ==
    \A s \in Sessions :
        EndedNormally(s) =>
            LET left == Reduce(InitLocals, received[s])
            IN  /\ Content(s) # <<>>
                /\ IsPrefix(left.tool_calls_content, Content(s))
                /\ ResponseText(s) # <<>>
                /\ (obs[s].outcome # "done" /\ Strip(left.current_thinking) # <<>>)
                     => ContainsSub(ResponseText(s), left.current_thinking)
                /\ (ResponseText(s) = <<NoResponse>>)
                     <=> (left.bot_response = <<>> /\ Strip(left.current_thinking) = <<>>)

-----------------------------------------------------------------------------
(* C30: the MCP tool functions *)

\* the dict is an error dict: error = True and a message
IsErrorDict(result) ==
    result.returns = "error_dict" /\ result.error /\ result.message # ""

\* the call of f has returned the body that the API sent
ReturnedBody(f) ==
    call[f].result.returns = "body" /\ call[f].result.details = call[f].reply.body

\* C30 as stated: no tool function raises; a call returns the body of the
\* API's answer when the answer has status 200, and in every other case
\* (another status, a connection failure, any other exception of the request)
\* it returns a dict with error = True and a message.
C30_ToolReturnsBodyOrErrorDict ==
    \A f \in McpTools :
        /\ call[f].pc # "raised"
        /\ call[f].pc = "returned"
             => IF call[f].reply.status = 200
                THEN ReturnedBody(f)
                ELSE IsErrorDict(call[f].result)

\* C30, amended: no tool function raises; a call returns the body of the
\* API's answer when the answer has status 200 and its body is JSON; and in
\* every other case (another status, a connection failure, a body that is no
\* JSON, any other exception) it returns a dict with error = True and a
\* message.
C30_ToolReturnsJsonBodyOrErrorDict ==
    \A f \in McpTools :
        /\ call[f].pc # "raised"
        /\ call[f].pc = "returned"
             => IF call[f].reply.status = 200 /\ call[f].reply.body # "not_json"
                THEN ReturnedBody(f)
                ELSE IsErrorDict(call[f].result)

\* the three functions have returned: one the JSON body of a 200 answer, one
\* the error dict for an answer 200 whose body is no JSON, one the error dict
\* of a timeout
C30_Witness ==
    /\ \A f \in McpTools : call[f].pc = "returned"
    /\ ReturnedBody("discover_organization")
    /\ call["discover_ai_services"].reply = [status |-> 200, body |-> "not_json"]
    /\ IsErrorDict(call["discover_ai_services"].result)
    /\ call["assess_compliance"].exc = "Timeout"
    /\ IsErrorDict(call["assess_compliance"].result)

=============================================================================
